---- MODULE Spec2Model ----
(***************************************************************************)
(* Model of the mineru-demo document parsing service:                      *)
(*   src/app/main.py            - the FastAPI gateway (five parse          *)
(*                                endpoints, GET /outputs)                 *)
(*   src/app/services/parser.py - the PDF / image / office pipelines and   *)
(*                                the two table renderers                  *)
(*   src/server.py              - the second gateway, which shells out to  *)
(*                                the mineru command                       *)
(*                                                                         *)
(* Text is modelled as sequences of one-character strings, so that         *)
(* lower(), endswith(), Path.stem, strftime, str.replace, str.strip,       *)
(* str.join and sorted() are computed character by character.              *)
(***************************************************************************)
EXTENDS Integers, Sequences, FiniteSets, TLC

\* ------------------------------------------------------------------ bounds
\* Number of requests handled in one process run.
NumReq == 2
\* Number of seconds the wall clock may advance during the run.
MaxTicks == 2
\* Largest number of rows / cells per row of a table handed to a renderer.
MaxRows == 2
MaxCols == 2
\* Largest number of tables detected on one page.
MaxPageTables == 2

Req == 1..NumReq

\* ------------------------------------------------------------- characters
\* A cell that pdfplumber / PyMuPDF reports as None; every other cell is a
\* string of one-character strings.
None == <<"None">>

Upper == <<"A","B","C","D","E","F","G","H","I","J","K","L","M",
           "N","O","P","Q","R","S","T","U","V","W","X","Y","Z">>
LowerCase == <<"a","b","c","d","e","f","g","h","i","j","k","l","m",
           "n","o","p","q","r","s","t","u","v","w","x","y","z">>
Digits == <<"0","1","2","3","4","5","6","7","8","9">>

\* Unicode code point of a character (the order Python compares str by).
Ord(c) ==
  IF \E k \in 1..10 : Digits[k] = c
    THEN 47 + (CHOOSE k \in 1..10 : Digits[k] = c)
  ELSE IF \E k \in 1..26 : Upper[k] = c
    THEN 64 + (CHOOSE k \in 1..26 : Upper[k] = c)
  ELSE IF \E k \in 1..26 : LowerCase[k] = c
    THEN 96 + (CHOOSE k \in 1..26 : LowerCase[k] = c)
  ELSE CASE c = "\n" -> 10
         [] c = " "  -> 32
         [] c = "-"  -> 45
         [] c = "."  -> 46
         [] c = "\\" -> 92
         [] c = "_"  -> 95
         [] c = "|"  -> 124
         [] OTHER    -> 0

\* str.lower() on one character, then on a string.
LowerChar(c) ==
  IF \E k \in 1..26 : Upper[k] = c
    THEN LowerCase[CHOOSE k \in 1..26 : Upper[k] = c]
    ELSE c

Lower(s) == [k \in 1..Len(s) |-> LowerChar(s[k])]

\* str.endswith(suffix)
EndsWith(s, suffix) ==
  /\ Len(suffix) <= Len(s)
  /\ SubSeq(s, Len(s) - Len(suffix) + 1, Len(s)) = suffix

\* Python's str < str: lexicographic by code point, a proper prefix first.
RECURSIVE StrLess(_, _)
StrLess(s, t) ==
  IF t = <<>> THEN FALSE
  ELSE IF s = <<>> THEN TRUE
  ELSE IF Ord(Head(s)) # Ord(Head(t)) THEN Ord(Head(s)) < Ord(Head(t))
  ELSE StrLess(Tail(s), Tail(t))

\* Path(filename).stem for a name without directory part: the name up to its
\* last dot, unless that dot leads or ends the name.
LastDot(s) ==
  IF \E k \in 1..Len(s) : s[k] = "."
    THEN CHOOSE k \in 1..Len(s) :
           s[k] = "." /\ \A j \in (k+1)..Len(s) : s[j] # "."
    ELSE 0

Stem(s) ==
  IF LastDot(s) <= 1 \/ LastDot(s) = Len(s) THEN s
  ELSE SubSeq(s, 1, LastDot(s) - 1)

\* --------------------------------------------------------------- the clock
\* Wall-clock time in seconds since 2024-01-01 00:00:00 local time; the run
\* starts just before the seconds reach two digits, or just before midnight.
StartTimes == {9, 86399}

\* "%d": no leading zero.
Pad2NoPad(n) ==
  IF n < 10 THEN <<Digits[n + 1]>>
  ELSE <<Digits[(n \div 10) + 1], Digits[(n % 10) + 1]>>

\* The two-digit, zero-padded fields of strftime: %d, %H, %M, %S.
Pad2(n) == <<Digits[((n \div 10) % 10) + 1], Digits[(n % 10) + 1]>>

\* datetime.strftime("%Y%m%d_%H%M%S"), for a time within January 2024.
strftime(t) ==
  <<"2","0","2","4","0","1">> \o Pad2(1 + (t \div 86400)) \o <<"_">>
    \o Pad2((t % 86400) \div 3600) \o Pad2((t % 3600) \div 60) \o Pad2(t % 60)

\* f"{base_name}_{timestamp}.md" and f"{base_name}_{timestamp}_images"
md_filename(base_name, timestamp) ==
  base_name \o <<"_">> \o timestamp \o <<".","m","d">>

images_dirname(base_name, timestamp) ==
  base_name \o <<"_">> \o timestamp \o <<"_","i","m","a","g","e","s">>

\* ------------------------------------------------------------ the gateways
MainLanguages ==
  {"en", "ch", "korean", "japan", "chinese_cht", "ta", "te", "ka",
   "th", "el", "latin", "arabic", "cyrillic", "devanagari"}

ServerLanguages ==
  {"ch", "ch_server", "ch_lite", "en", "korean", "japan",
   "chinese_cht", "ta", "te", "ka", "th", "el", "latin",
   "arabic", "east_slavic", "cyrillic", "devanagari"}

SUPPORTED_LANGUAGES(variant) ==
  IF variant = "main" THEN MainLanguages ELSE ServerLanguages

\* The check made against the union of the two gateways' lists.
LangAnyGateway(variant, lang) == lang \in MainLanguages \cup ServerLanguages

\* `lang not in SUPPORTED_LANGUAGES`, negated
LangSupported(variant, lang) == lang \in SUPPORTED_LANGUAGES(variant)

\* The extensions each endpoint of app/main.py accepts.
Extensions(endpoint) ==
  CASE endpoint = "pdf"   -> { <<".","p","d","f">> }
    [] endpoint = "image" -> { <<".","p","n","g">>, <<".","j","p","g">>,
                               <<".","j","p","e","g">>, <<".","w","e","b","p">>,
                               <<".","b","m","p">> }
    [] endpoint = "docx"  -> { <<".","d","o","c","x">> }
    [] endpoint = "pptx"  -> { <<".","p","p","t","x">> }
    [] endpoint = "xlsx"  -> { <<".","x","l","s","x">> }

\* file.filename.lower().endswith(...)
ExtensionOk(endpoint, filename) ==
  \E e \in Extensions(endpoint) : EndsWith(Lower(filename), e)

\* ------------------------------------------------------------------ inputs
FileNames ==
  { <<"a",".","p","d","f">>, <<"b",".","P","D","F">>, <<"a",".","t","x","t">>,
    <<"a",".","p","n","g">>, <<"a",".","d","o","c","x">>,
    <<"b",".","p","p","t","x">>, <<"a",".","x","l","s","x">> }

\* "en" is supported by both gateways, "ch_lite" by server.py only, "klingon"
\* by neither.
Langs == {"en", "ch_lite", "klingon"}

Endpoints == {"pdf", "image", "docx", "pptx", "xlsx"}

\* The image side-files the primary PDF analysis may leave in image_dir.
ImageSets == { {}, {"x.jpg"}, {"y.jpg"} }

\* ------------------------------------------------------ strings, continued
\* str.replace(old, new) for a one-character old.
RECURSIVE Replace(_, _, _)
Replace(s, old, new) ==
  IF s = <<>> THEN <<>>
  ELSE (IF Head(s) = old THEN new ELSE <<Head(s)>>) \o Replace(Tail(s), old, new)

IsSpace(c) == c \in {" ", "\n"}

\* str.strip()
RECURSIVE LStrip(_)
LStrip(s) == IF s # <<>> /\ IsSpace(Head(s)) THEN LStrip(Tail(s)) ELSE s

RECURSIVE RStrip(_)
RStrip(s) ==
  IF s # <<>> /\ IsSpace(s[Len(s)]) THEN RStrip(SubSeq(s, 1, Len(s) - 1)) ELSE s

Strip(s) == RStrip(LStrip(s))

\* sep.join(parts)
RECURSIVE Join(_, _)
Join(sep, parts) ==
  IF parts = <<>> THEN <<>>
  ELSE IF Len(parts) = 1 THEN parts[1]
  ELSE parts[1] \o sep \o Join(sep, Tail(parts))

\* str(n) for 0 <= n <= 99
IntToStr(n) ==
  IF n < 10 THEN <<Digits[n + 1]>>
  ELSE <<Digits[(n \div 10) + 1], Digits[(n % 10) + 1]>>

\* `cell` as a condition: None and "" are false.
Truthy(cell) == cell # None /\ cell # <<>>

RowHasContent(row) == row # <<>> /\ \E k \in 1..Len(row) : Truthy(row[k])

\* [row for row in data if row and any(cell for cell in row)]
RECURSIVE FilterRows(_)
FilterRows(data) ==
  IF data = <<>> THEN <<>>
  ELSE (IF RowHasContent(Head(data)) THEN <<Head(data)>> ELSE <<>>)
         \o FilterRows(Tail(data))

MaxLen(rows) ==
  CHOOSE n \in {Len(rows[k]) : k \in 1..Len(rows)} :
    \A k \in 1..Len(rows) : Len(rows[k]) <= n

\* "| " + " | ".join(cells) + " |"
MdLine(cells) == <<"|"," ">> \o Join(<<" ","|"," ">>, cells) \o <<" ","|">>

\* ["---"] * n
Dashes(n) == [k \in 1..n |-> <<"-","-","-">>]

\* str(cell) if cell else ""
CellText(cell) == IF Truthy(cell) THEN cell ELSE <<>>

\* cell.replace("|", "\\|").replace("\n", " ")
Escape(text) == Replace(Replace(text, "|", <<"\\","|">>), "\n", <<" ">>)

\* One rendered cell of _list_table_to_markdown: column i of row, padded.
ListCell(row, i) == Strip(Escape(CellText(IF i <= Len(row) THEN row[i] ELSE <<>>)))

ListRow(row, max_cols) == MdLine([i \in 1..max_cols |-> ListCell(row, i)])

\* `if not data`: the first row is not looked at.
FirstRowGuardNoRow(data) == data = <<>>

\* `if not data or not data[0]`
FirstRowGuard(data) == data = <<>> \/ data[1] = <<>>

\* _list_table_to_markdown(data)
list_table_to_markdown(data) ==
  IF FirstRowGuard(data) THEN <<>>
  ELSE LET rows == FilterRows(data) IN
       IF rows = <<>> THEN <<>>
       ELSE LET max_cols == MaxLen(rows) IN
            Join(<<"\n">>,
                 <<ListRow(rows[1], max_cols), MdLine(Dashes(max_cols))>>
                   \o [k \in 1..(Len(rows) - 1) |-> ListRow(rows[k + 1], max_cols)])

\* _table_to_markdown(table), data being table.extract()
table_to_markdown(data) ==
  IF FirstRowGuard(data) THEN <<>>
  ELSE LET header == data[1] IN
       Join(<<"\n">>,
            << MdLine([i \in 1..Len(header) |-> CellText(header[i])]),
               MdLine(Dashes(Len(header))) >>
              \o [k \in 1..(Len(data) - 1) |->
                    MdLine([i \in 1..Len(data[k + 1]) |->
                              Escape(CellText(data[k + 1][i]))])])

\* The cells, rows and tables handed to the renderers.
Cells == { None, <<>>, <<"a">>, <<"b","|","\n">> }

RowsUpTo(cells, n) == UNION { [1..k -> cells] : k \in 0..n }

TablesUpTo(rows, n) == UNION { [1..k -> rows] : k \in 0..n }

Tables == TablesUpTo(RowsUpTo(Cells, MaxCols), MaxRows)

\* ------------------------------------------------- the PDF fallback, a page
\* A page as pdfplumber reports it:
\*   lines  - extract_tables() with the line-based settings
\*   text   - extract_tables() with the text-alignment settings
\*   bboxes - the bbox <<x0, top, x1, bottom>> of each table of find_tables()
\*   chars  - page.chars, each glyph [ch, x0, top]
\* pdfplumber.utils.extract_text(chars) and page.extract_text() are taken to
\* return the glyphs' characters in order.
extract_text(chars) == [k \in 1..Len(chars) |-> chars[k].ch]

InBBox(char, bbox) ==
  /\ bbox[1] <= char.x0 /\ char.x0 <= bbox[3]
  /\ bbox[2] <= char.top /\ char.top <= bbox[4]

\* [char for char in chars if it lies in no table bbox]
RECURSIVE FilterChars(_, _)
FilterChars(chars, bboxes) ==
  IF chars = <<>> THEN <<>>
  ELSE (IF \E b \in 1..Len(bboxes) : InBBox(Head(chars), bboxes[b])
          THEN <<>> ELSE <<Head(chars)>>)
         \o FilterChars(Tail(chars), bboxes)

\* The tables the page renders: the line-based ones, else the retry's.
PageTablesOf(page) == IF page.lines # <<>> THEN page.lines ELSE page.text

\* f"### Table {table_idx + 1}\n\n"
TableHeading(index) ==
  <<"#","#","#"," ","T","a","b","l","e"," ">> \o IntToStr(index) \o <<"\n","\n">>

\* `if table_md:`
KeepTable(table_md) == table_md # <<>>

\* The loop over the page's tables: the markdown sections appended to
\* page_content and the entries appended to page_data["tables"].
RECURSIVE TableSections(_, _)
TableSections(tables, table_idx) ==
  IF table_idx >= Len(tables) THEN [md |-> <<>>, entries |-> <<>>]
  ELSE LET table_data == tables[table_idx + 1]
           rest == TableSections(tables, table_idx + 1)
           table_md == list_table_to_markdown(table_data)
       IN IF table_data # <<>> /\ KeepTable(table_md)
            THEN [md |-> TableHeading(table_idx + 1) \o table_md \o <<"\n","\n">>
                           \o rest.md,
                  entries |-> << [index |-> table_idx + 1,
                                  markdown |-> table_md,
                                  data |-> table_data] >> \o rest.entries]
            ELSE rest

\* The prose text of the page.
PageText(page) ==
  IF page.bboxes # <<>>
    THEN extract_text(FilterChars(page.chars, page.bboxes))
    ELSE extract_text(page.chars)

\* One iteration of `for page_num, page in enumerate(pdf.pages)`:
\* the page's markdown and its structured record.
FallbackPage(page_num, page) ==
  LET sections == TableSections(PageTablesOf(page), 0)
      text == PageText(page)
      heading == <<"#","#"," ","P","a","g","e"," ">> \o IntToStr(page_num + 1)
                   \o <<"\n","\n">>
  IN [content |-> heading \o sections.md
                    \o (IF Strip(text) # <<>> THEN text \o <<"\n","\n">> ELSE <<>>),
      data |-> [page |-> page_num + 1,
                text |-> Strip(text),
                tables |-> sections.entries]]

\* The tables of the pages handed to the fallback: one column, a cell being
\* None or "a".
PageTables == TablesUpTo(RowsUpTo({None, <<"a">>}, 1), MaxRows)

\* The glyphs of every page: "p" above the table region, "t" inside it.
PageChars == << [ch |-> "p", x0 |-> 1, top |-> 1], [ch |-> "t", x0 |-> 1, top |-> 5] >>

TableBBox == <<0, 4, 9, 9>>

\* A table of two rows of one cell "a", as the text-alignment retry finds it.
BorderlessTable == << << <<"a">> >>, << <<"a">> >> >>

Pages ==
  { [lines |-> l, text |-> t, bboxes |-> b, chars |-> PageChars] :
      l \in TablesUpTo(PageTables, MaxPageTables),
      t \in { <<>>, <<BorderlessTable>> },
      b \in { <<>>, <<TableBBox>> } }

\* ---------------------------------------------------------------- the state
VARIABLES
  pc,        \* per request: where its handler stands
  req,       \* per request: gateway variant, endpoint, filename, lang
  loc,       \* per request: the handler's locals and what it has done so far
  resp,      \* per request: the HTTP response, once sent
  tempdirs,  \* the TemporaryDirectory()s that exist, by owning request
  tmpfiles,  \* the NamedTemporaryFile()s that exist, by owning request
  outputs,   \* the files of OUTPUT_DIR: [name, owner, state]
  imgdirs,   \* the image directories of OUTPUT_DIR: [name, files]
  cli_out,   \* what the mineru command left under OUTPUT_DIR: [stem, owner]
  start,     \* the wall clock when the process started
  now,       \* the wall clock
  listing,   \* the last answer of GET /outputs
  call,      \* the renderer call under study: [fn, arg]
  ret        \* and its result

vars == <<pc, req, loc, resp, tempdirs, tmpfiles, outputs, imgdirs, cli_out,
          start, now, listing, call, ret>>

service_vars == <<pc, req, loc, resp, tempdirs, tmpfiles, outputs, imgdirs,
                  cli_out, start, now, listing>>

NoReq == [variant |-> "none", endpoint |-> "none", filename |-> <<>>, lang |-> "none"]

NoLoc ==
  [read |-> FALSE,          \* `await file.read()` has run
   tmp |-> FALSE,           \* a temporary directory or file was created
   strategy |-> FALSE,      \* an extraction strategy was invoked
   primary_exc |-> "none",  \* what the primary PDF analysis raised
   fallbacks |-> 0,         \* times the `except FileNotFoundError` block ran
   via |-> "none",          \* the strategy that produced md_content
   images |-> {},           \* the files of the temporary image_dir
   created |-> 0,           \* datetime.now(), once taken
   base_name |-> <<>>, timestamp |-> <<>>, md_filename |-> <<>>]

NoError == [type |-> "none", origin |-> "none"]

NoResult == [via |-> "none", markdown_file |-> <<>>, images |-> {}, keys |-> {}]

NoResp == [status |-> 0, error |-> NoError, result |-> NoResult]

NoCall == [fn |-> "none", arg |-> <<>>]

ExcTypes == {"FileNotFoundError", "Other"}

ServiceInit ==
  /\ pc = [i \in Req |-> "idle"]
  /\ req = [i \in Req |-> NoReq]
  /\ loc = [i \in Req |-> NoLoc]
  /\ resp = [i \in Req |-> NoResp]
  /\ tempdirs = {}
  /\ tmpfiles = {}
  /\ outputs = {}
  /\ imgdirs = {}
  /\ cli_out = {}
  /\ listing = <<>>

Init ==
  /\ ServiceInit
  /\ start \in StartTimes
  /\ now = start
  /\ call = NoCall
  /\ ret = <<>>

\* ------------------------------------------------------------ building blocks
\* Requests are numbered in the order they arrive.
Arrives(i) == pc[i] = "idle" /\ (IF i = 1 THEN TRUE ELSE pc[i - 1] # "idle")

\* Leaving `with tempfile.TemporaryDirectory()` without removing it.
ExitWithLeak(dirs, i) == dirs

\* Leaving `with tempfile.TemporaryDirectory()`: the directory is removed.
ExitWith(dirs, i) == dirs \ {i}

\* os.unlink(tmp_path)
Unlink(files, i) == files \ {i}

\* `except Exception`: every failure of the primary analysis is caught.
CatchesAny(exc) == TRUE

\* `except ImportError`: the missing model file is not caught.
CatchesNone(exc) == FALSE

\* `except FileNotFoundError`
IsMissingModel(exc) == exc = "FileNotFoundError"

\* path.write_text(...): the file is created or truncated, then written.
WriteFile(files, name, owner, state) ==
  {f \in files : f.name # name} \cup {[name |-> name, owner |-> owner, state |-> state]}

\* images_output_dir.mkdir(exist_ok=True), then shutil.copy of `names` into it.
CopyInto(dirs, dirname, names, owner) ==
  LET old == IF \E d \in dirs : d.name = dirname
               THEN (CHOOSE d \in dirs : d.name = dirname).files ELSE {}
      new == {f \in old : f.name \notin names}
               \cup {[name |-> n, owner |-> owner] : n \in names}
  IN {d \in dirs : d.name # dirname} \cup {[name |-> dirname, files |-> new]}

\* Every strategy returning the dict of _parse_image_sync.
ResultKeysOfImage(via) ==
  {"filename", "markdown", "markdown_file", "image_size", "format"}

\* The keys of the dict each strategy returns.
ResultKeys(via) ==
  CASE via \in {"primary", "fallback"} ->
         {"filename", "markdown", "markdown_file", "content_list", "images", "page_count"}
    [] via = "ocr" ->
         {"filename", "markdown", "markdown_file", "image_size", "format"}
    [] via = "markitdown" ->
         {"filename", "markdown", "markdown_file", "word_count", "converter"}
    [] OTHER -> {"status", "filename", "output_dir", "output"}

\* The handler of request i ends with an error response.
Respond(i, status, type, origin) ==
  /\ pc' = [pc EXCEPT ![i] = "done"]
  /\ resp' = [resp EXCEPT ![i] = [status |-> status,
                                  error |-> [type |-> type, origin |-> origin],
                                  result |-> NoResult]]

\* The handler of request i ends with JSONResponse(content=result).
Return(i, markdown_file, images) ==
  /\ pc' = [pc EXCEPT ![i] = "done"]
  /\ resp' = [resp EXCEPT ![i] =
                [status |-> 200, error |-> NoError,
                 result |-> [via |-> loc[i].via,
                             markdown_file |-> markdown_file,
                             images |-> images,
                             keys |-> ResultKeys(loc[i].via)]]]

\* base_name = Path(filename).stem; timestamp = datetime.now().strftime(...);
\* md_filename = f"{base_name}_{timestamp}.md"
Named(i) ==
  [loc[i] EXCEPT !.created = now,
                 !.base_name = Stem(req[i].filename),
                 !.timestamp = strftime(now),
                 !.md_filename = md_filename(Stem(req[i].filename), strftime(now))]

\* ------------------------------------------------------- app/main.py gateway
\* The shared shape of the five endpoints: the extension check, for
\* /parse/pdf the language check, then `content = await file.read()` and the
\* call of the parser, which run_in_executor hands to a worker thread.
Endpoint(i, endpoint, lang, entry) ==
  /\ Arrives(i)
  /\ \E filename \in FileNames :
       /\ req' = [req EXCEPT ![i] = [variant |-> "main", endpoint |-> endpoint,
                                     filename |-> filename, lang |-> lang]]
       /\ IF ~ExtensionOk(endpoint, filename)
            THEN Respond(i, 400, "HTTPException", "extension") /\ UNCHANGED loc
          ELSE IF endpoint = "pdf" /\ ~LangSupported("main", lang)
            THEN Respond(i, 400, "HTTPException", "lang") /\ UNCHANGED loc
          ELSE /\ loc' = [loc EXCEPT ![i].read = TRUE]
               /\ pc' = [pc EXCEPT ![i] = entry]
               /\ UNCHANGED resp
  /\ UNCHANGED <<tempdirs, tmpfiles, outputs, imgdirs, cli_out, start, now,
                 listing, call, ret>>

parse_pdf_endpoint(i) == \E lang \in Langs : Endpoint(i, "pdf", lang, "pdf_sync")

parse_image_endpoint(i) == Endpoint(i, "image", "none", "image_sync")

parse_docx_endpoint(i) == Endpoint(i, "docx", "none", "office_sync")

parse_pptx_endpoint(i) == Endpoint(i, "pptx", "none", "office_sync")

parse_xlsx_endpoint(i) == Endpoint(i, "xlsx", "none", "office_sync")

\* sorted(names, reverse=True)
RECURSIVE SortedDescending(_)
SortedDescending(names) ==
  IF names = {} THEN <<>>
  ELSE LET greatest == CHOOSE n \in names : \A m \in names \ {n} : StrLess(m, n)
       IN <<greatest>> \o SortedDescending(names \ {greatest})

\* OUTPUT_DIR.glob("*.md")
GlobMd(files) == {f.name : f \in {g \in files : EndsWith(g.name, <<".","m","d">>)}}

\* GET /outputs: the filenames of the answer, in its order
ListingOf(files) == SortedDescending(GlobMd(files))

list_outputs ==
  /\ listing' = ListingOf(outputs)
  /\ UNCHANGED <<pc, req, loc, resp, tempdirs, tmpfiles, outputs, imgdirs,
                 cli_out, start, now, call, ret>>

\* ------------------------------------------- parser.py: _parse_pdf_sync
\* lines 104-111: the temporary directory, its output/ and the input file
PdfEnter(i) ==
  /\ pc[i] = "pdf_sync"
  /\ loc' = [loc EXCEPT ![i].tmp = TRUE]
  /\ \E ok \in BOOLEAN :
       IF ok
         THEN /\ tempdirs' = tempdirs \cup {i}
              /\ pc' = [pc EXCEPT ![i] = "pdf_primary"]
              /\ UNCHANGED resp
         ELSE /\ tempdirs' = ExitWith(tempdirs \cup {i}, i)
              /\ Respond(i, 500, "Other", "write_input")
  /\ UNCHANGED <<req, tmpfiles, outputs, imgdirs, cli_out, start, now, listing,
                 call, ret>>

\* lines 113-136: the readers and the dataset, then the primary analysis in
\* its try block; FileNotFoundError raised in the block enters the fallback,
\* with whatever images the analysis had written into image_dir by then.
PdfPrimary(i) ==
  /\ pc[i] = "pdf_primary"
  /\ \E outcome \in {"ok", "setup_raises", "raises"}, exc \in ExcTypes,
        images \in ImageSets :
       CASE outcome = "setup_raises" ->
              /\ images = {}
              /\ tempdirs' = ExitWith(tempdirs, i)
              /\ Respond(i, 500, exc, "setup")
              /\ UNCHANGED loc
         [] outcome = "raises" ->
              /\ IF IsMissingModel(exc)
                   THEN /\ loc' = [loc EXCEPT ![i].strategy = TRUE,
                                              ![i].primary_exc = exc,
                                              ![i].fallbacks = @ + 1,
                                              ![i].images = images]
                        /\ pc' = [pc EXCEPT ![i] = "pdf_fallback"]
                        /\ UNCHANGED <<tempdirs, resp>>
                   ELSE /\ images = {}
                        /\ loc' = [loc EXCEPT ![i].strategy = TRUE,
                                              ![i].primary_exc = exc]
                        /\ tempdirs' = ExitWith(tempdirs, i)
                        /\ Respond(i, 500, exc, "primary")
         [] outcome = "ok" ->
              /\ exc = "Other"
              /\ loc' = [loc EXCEPT ![i].strategy = TRUE, ![i].via = "primary",
                                    ![i].images = images]
              /\ pc' = [pc EXCEPT ![i] = "pdf_persist"]
              /\ UNCHANGED <<tempdirs, resp>>
  /\ UNCHANGED <<req, tmpfiles, outputs, imgdirs, cli_out, start, now, listing,
                 call, ret>>

\* lines 137-221: the except block, the per-page pdfplumber extraction; what
\* it raises leaves the function.
PdfFallback(i) ==
  /\ pc[i] = "pdf_fallback"
  /\ \E ok \in BOOLEAN, exc \in ExcTypes :
       IF ok
         THEN /\ exc = "Other"
              /\ loc' = [loc EXCEPT ![i].via = "fallback"]
              /\ pc' = [pc EXCEPT ![i] = "pdf_persist"]
              /\ UNCHANGED <<tempdirs, resp>>
         ELSE /\ tempdirs' = ExitWith(tempdirs, i)
              /\ Respond(i, 500, exc, "fallback")
              /\ UNCHANGED loc
  /\ UNCHANGED <<req, tmpfiles, outputs, imgdirs, cli_out, start, now, listing,
                 call, ret>>

\* lines 223-230: the timestamped name and md_output_path.write_text
PdfPersist(i) ==
  /\ pc[i] = "pdf_persist"
  /\ loc' = [loc EXCEPT ![i] = Named(i)]
  /\ \E outcome \in {"ok", "open_fails", "write_fails"} :
       CASE outcome = "ok" ->
              /\ outputs' = WriteFile(outputs, loc'[i].md_filename, i, "full")
              /\ pc' = [pc EXCEPT ![i] = "pdf_copy"]
              /\ UNCHANGED <<tempdirs, resp>>
         [] outcome = "open_fails" ->
              /\ tempdirs' = ExitWith(tempdirs, i)
              /\ Respond(i, 500, "Other", "write_md")
              /\ UNCHANGED outputs
         [] outcome = "write_fails" ->
              /\ outputs' = WriteFile(outputs, loc'[i].md_filename, i, "partial")
              /\ tempdirs' = ExitWith(tempdirs, i)
              /\ Respond(i, 500, "Other", "write_md")
  /\ UNCHANGED <<req, tmpfiles, imgdirs, cli_out, start, now, listing, call, ret>>

\* lines 232-248: the images directory, the copies and the return; mkdir
\* may fail, and a copy that fails leaves the images copied before it.
PdfCopy(i) ==
  /\ pc[i] = "pdf_copy"
  /\ tempdirs' = ExitWith(tempdirs, i)
  /\ \/ /\ Respond(i, 500, "Other", "copy_images")
        /\ UNCHANGED imgdirs
     \/ \E copied \in SUBSET loc[i].images :
          /\ imgdirs' = CopyInto(imgdirs,
                                 images_dirname(loc[i].base_name, loc[i].timestamp),
                                 copied, i)
          /\ IF copied = loc[i].images
               THEN Return(i, loc[i].md_filename, copied)
               ELSE Respond(i, 500, "Other", "copy_images")
  /\ UNCHANGED <<req, loc, tmpfiles, outputs, cli_out, start, now, listing,
                 call, ret>>

\* ------------------------------------------ parser.py: _parse_image_sync
\* lines 271-278: the temporary directory, its output/ and the input file
ImageEnter(i) ==
  /\ pc[i] = "image_sync"
  /\ loc' = [loc EXCEPT ![i].tmp = TRUE]
  /\ \E ok \in BOOLEAN :
       IF ok
         THEN /\ tempdirs' = tempdirs \cup {i}
              /\ pc' = [pc EXCEPT ![i] = "image_ocr"]
              /\ UNCHANGED resp
         ELSE /\ tempdirs' = ExitWith(tempdirs \cup {i}, i)
              /\ Respond(i, 500, "Other", "write_input")
  /\ UNCHANGED <<req, tmpfiles, outputs, imgdirs, cli_out, start, now, listing,
                 call, ret>>

\* lines 280-300: Image.open and the OCR pipe; no except block
ImageOcr(i) ==
  /\ pc[i] = "image_ocr"
  /\ \E ok \in BOOLEAN, exc \in ExcTypes :
       IF ok
         THEN /\ exc = "Other"
              /\ loc' = [loc EXCEPT ![i].strategy = TRUE, ![i].via = "ocr"]
              /\ pc' = [pc EXCEPT ![i] = "image_persist"]
              /\ UNCHANGED <<tempdirs, resp>>
         ELSE /\ loc' = [loc EXCEPT ![i].strategy = TRUE]
              /\ tempdirs' = ExitWith(tempdirs, i)
              /\ Respond(i, 500, exc, "ocr")
  /\ UNCHANGED <<req, tmpfiles, outputs, imgdirs, cli_out, start, now, listing,
                 call, ret>>

\* lines 302-317: the timestamped name, write_text and the return
ImagePersist(i) ==
  /\ pc[i] = "image_persist"
  /\ loc' = [loc EXCEPT ![i] = Named(i)]
  /\ tempdirs' = ExitWith(tempdirs, i)
  /\ \E outcome \in {"ok", "open_fails", "write_fails"} :
       CASE outcome = "ok" ->
              /\ outputs' = WriteFile(outputs, loc'[i].md_filename, i, "full")
              /\ Return(i, loc'[i].md_filename, {})
         [] outcome = "open_fails" ->
              /\ Respond(i, 500, "Other", "write_md")
              /\ UNCHANGED outputs
         [] outcome = "write_fails" ->
              /\ outputs' = WriteFile(outputs, loc'[i].md_filename, i, "partial")
              /\ Respond(i, 500, "Other", "write_md")
  /\ UNCHANGED <<req, tmpfiles, imgdirs, cli_out, start, now, listing, call, ret>>

\* ----------------------------------------- parser.py: _parse_office_sync
\* lines 345-347: NamedTemporaryFile(suffix=..., delete=False) and tmp.write;
\* the try block, whose finally unlinks the file, starts after this `with`.
OfficeEnter(i) ==
  /\ pc[i] = "office_sync"
  /\ loc' = [loc EXCEPT ![i].tmp = TRUE]
  /\ tmpfiles' = tmpfiles \cup {i}
  /\ \E ok \in BOOLEAN :
       IF ok
         THEN /\ pc' = [pc EXCEPT ![i] = "office_convert"]
              /\ UNCHANGED resp
         ELSE Respond(i, 500, "Other", "write_input")
  /\ UNCHANGED <<req, tempdirs, outputs, imgdirs, cli_out, start, now, listing,
                 call, ret>>

\* lines 349-352 and 373-375: _markitdown.convert inside try/finally
OfficeConvert(i) ==
  /\ pc[i] = "office_convert"
  /\ \E ok \in BOOLEAN :
       IF ok
         THEN /\ loc' = [loc EXCEPT ![i].strategy = TRUE, ![i].via = "markitdown"]
              /\ pc' = [pc EXCEPT ![i] = "office_persist"]
              /\ UNCHANGED <<tmpfiles, resp>>
         ELSE /\ loc' = [loc EXCEPT ![i].strategy = TRUE]
              /\ tmpfiles' = Unlink(tmpfiles, i)
              /\ Respond(i, 500, "Other", "convert")
  /\ UNCHANGED <<req, tempdirs, outputs, imgdirs, cli_out, start, now, listing,
                 call, ret>>

\* lines 354-375: the timestamped name, write_text, the return and the finally
OfficePersist(i) ==
  /\ pc[i] = "office_persist"
  /\ loc' = [loc EXCEPT ![i] = Named(i)]
  /\ tmpfiles' = Unlink(tmpfiles, i)
  /\ \E outcome \in {"ok", "open_fails", "write_fails"} :
       CASE outcome = "ok" ->
              /\ outputs' = WriteFile(outputs, loc'[i].md_filename, i, "full")
              /\ Return(i, loc'[i].md_filename, {})
         [] outcome = "open_fails" ->
              /\ Respond(i, 500, "Other", "write_md")
              /\ UNCHANGED outputs
         [] outcome = "write_fails" ->
              /\ outputs' = WriteFile(outputs, loc'[i].md_filename, i, "partial")
              /\ Respond(i, 500, "Other", "write_md")
  /\ UNCHANGED <<req, tempdirs, imgdirs, cli_out, start, now, listing, call, ret>>

\* ------------------------------------------------------ server.py gateway
\* lines 37-51: the language check, the temporary directory, the upload
\* written into it.  There is no extension check.
server_parse_pdf(i) ==
  /\ Arrives(i)
  /\ \E filename \in FileNames, lang \in Langs :
       /\ req' = [req EXCEPT ![i] = [variant |-> "server", endpoint |-> "pdf",
                                     filename |-> filename, lang |-> lang]]
       /\ IF ~LangSupported("server", lang)
            THEN /\ Respond(i, 400, "JSONResponse", "lang")
                 /\ UNCHANGED <<loc, tempdirs>>
            ELSE \E ok \in BOOLEAN :
                   /\ loc' = [loc EXCEPT ![i].tmp = TRUE, ![i].read = TRUE]
                   /\ IF ok
                        THEN /\ tempdirs' = tempdirs \cup {i}
                             /\ pc' = [pc EXCEPT ![i] = "server_run"]
                             /\ UNCHANGED resp
                        ELSE /\ tempdirs' = ExitWith(tempdirs \cup {i}, i)
                             /\ Respond(i, 500, "Other", "write_input")
  /\ UNCHANGED <<tmpfiles, outputs, imgdirs, cli_out, start, now, listing,
                 call, ret>>

\* lines 53-101: the mineru command, then either the 500 answer or the
\* collected output; both leave the `with`.
ServerRun(i) ==
  /\ pc[i] = "server_run"
  /\ tempdirs' = ExitWith(tempdirs, i)
  /\ \E returncode \in {0, 1} :
       IF returncode # 0
         THEN /\ loc' = [loc EXCEPT ![i].strategy = TRUE]
              /\ Respond(i, 500, "JSONResponse", "mineru")
              /\ UNCHANGED cli_out
         ELSE /\ loc' = [loc EXCEPT ![i].strategy = TRUE, ![i].via = "mineru",
                                    ![i].base_name = Stem(req[i].filename)]
              /\ cli_out' = {o \in cli_out : o.stem # Stem(req[i].filename)}
                              \cup {[stem |-> Stem(req[i].filename), owner |-> i]}
              /\ pc' = [pc EXCEPT ![i] = "done"]
              /\ resp' = [resp EXCEPT ![i] =
                            [status |-> 200, error |-> NoError,
                             result |-> [via |-> "mineru",
                                         markdown_file |-> Stem(req[i].filename),
                                         images |-> {},
                                         keys |-> ResultKeys("mineru")]]]
  /\ UNCHANGED <<req, tmpfiles, outputs, imgdirs, start, now, listing, call, ret>>

\* ----------------------------------------------------------------- the clock
Tick ==
  /\ now < start + MaxTicks
  /\ now' = now + 1
  /\ UNCHANGED <<pc, req, loc, resp, tempdirs, tmpfiles, outputs, imgdirs,
                 cli_out, start, listing, call, ret>>

Next ==
  \/ \E i \in Req : parse_pdf_endpoint(i)
  \/ \E i \in Req : parse_image_endpoint(i)
  \/ \E i \in Req : parse_docx_endpoint(i)
  \/ \E i \in Req : parse_pptx_endpoint(i)
  \/ \E i \in Req : parse_xlsx_endpoint(i)
  \/ \E i \in Req : server_parse_pdf(i)
  \/ \E i \in Req : PdfEnter(i)
  \/ \E i \in Req : PdfPrimary(i)
  \/ \E i \in Req : PdfFallback(i)
  \/ \E i \in Req : PdfPersist(i)
  \/ \E i \in Req : PdfCopy(i)
  \/ \E i \in Req : ImageEnter(i)
  \/ \E i \in Req : ImageOcr(i)
  \/ \E i \in Req : ImagePersist(i)
  \/ \E i \in Req : OfficeEnter(i)
  \/ \E i \in Req : OfficeConvert(i)
  \/ \E i \in Req : OfficePersist(i)
  \/ \E i \in Req : ServerRun(i)
  \/ list_outputs
  \/ Tick

Spec == Init /\ [][Next]_vars

\* ===================================================== the claims, C1 to C8
Parser(i) == req[i].variant = "main"

Done(i) == pc[i] = "done"

\* C1: in _parse_pdf_sync the fallback is entered only after the primary
\* analysis raised FileNotFoundError, and at most once per request; any
\* other failure of the primary analysis reaches the caller without the
\* fallback running; a failure inside the fallback ends the request.
C1_FallbackOnlyOnMissingModelOnce ==
  \A i \in Req :
    /\ loc[i].fallbacks <= 1
    /\ (loc[i].fallbacks = 1 \/ pc[i] = "pdf_fallback" \/ loc[i].via = "fallback")
         => (loc[i].fallbacks = 1 /\ loc[i].primary_exc = "FileNotFoundError")
    /\ loc[i].primary_exc = "Other"
         => /\ loc[i].fallbacks = 0
            /\ Done(i)
            /\ resp[i].status = 500
            /\ resp[i].error = [type |-> "Other", origin |-> "primary"]
    /\ resp[i].error.origin = "setup" => loc[i].fallbacks = 0
    /\ resp[i].error.origin = "fallback"
         => Done(i) /\ resp[i].status = 500 /\ loc[i].fallbacks = 1

\* A request whose fallback ran and failed, beside one whose primary
\* analysis failed for another reason.
C1_Witness ==
  \E i, j \in Req :
    /\ Done(i) /\ resp[i].error.origin = "fallback" /\ loc[i].fallbacks = 1
    /\ Done(j) /\ resp[j].error.origin = "primary" /\ loc[j].primary_exc = "Other"

\* C2, as stated: every PDF request whose primary analysis raised
\* FileNotFoundError ends with a success result built by the fallback.
C2_AlwaysSucceeds ==
  \A i \in Req :
    (loc[i].primary_exc = "FileNotFoundError" /\ Done(i))
      => (resp[i].status = 200 /\ resp[i].result.via = "fallback")

\* C2, amended: such a request runs the fallback, and ends either with a
\* success result built by it or with the error of a later step (the fallback
\* extraction, the markdown write, the image directory and copies); the
\* error of the primary analysis is never the one the caller receives.
C2_FallbackRunsAndPrimaryErrorIsSwallowed ==
  \A i \in Req :
    loc[i].primary_exc = "FileNotFoundError"
      => /\ loc[i].fallbacks = 1
         /\ resp[i].error.origin # "primary"
         /\ Done(i) =>
              \/ resp[i].status = 200 /\ resp[i].result.via = "fallback"
              \/ resp[i].status = 500
                   /\ resp[i].error.origin \in {"fallback", "write_md", "copy_images"}

\* A request answered 200 out of the fallback.
C2_Witness ==
  \E i \in Req :
    /\ loc[i].primary_exc = "FileNotFoundError"
    /\ Done(i) /\ resp[i].status = 200 /\ resp[i].result.via = "fallback"

\* C3: once a PDF or image request is answered, by either gateway, its
\* temporary directory does not exist, whichever step ended the call.
C3_TempDirGoneOnReturn ==
  \A i \in Req :
    (Done(i) /\ req[i].endpoint \in {"pdf", "image"}) => i \notin tempdirs

\* Answered requests that had a temporary directory: a PDF whose image copy
\* failed, beside one that succeeded.
C3_Witness ==
  \E i, j \in Req :
    /\ Done(i) /\ loc[i].tmp /\ resp[i].error.origin = "copy_images"
    /\ Done(j) /\ loc[j].tmp /\ resp[j].status = 200
    /\ req[j].endpoint \in {"pdf", "image"}

\* C4, as stated: once an office request is answered, its temporary file
\* does not exist, whichever step ended the call.
C4_TempFileGoneOnReturn ==
  \A i \in Req :
    (Done(i) /\ req[i].endpoint \in {"docx", "pptx", "xlsx"}) => i \notin tmpfiles

\* C5: a /parse/pdf request whose lang is not in the gateway's list is
\* answered 400 with no byte read, no temporary directory or file made, no
\* strategy invoked and nothing written, in app/main.py and in server.py.
C5_UnsupportedLangRejectedFirst ==
  \A i \in Req :
    (pc[i] # "idle" /\ req[i].endpoint = "pdf"
       /\ req[i].lang \notin SUPPORTED_LANGUAGES(req[i].variant))
      => /\ Done(i)
         /\ resp[i].status = 400
         /\ ~loc[i].read /\ ~loc[i].tmp /\ ~loc[i].strategy
         /\ i \notin tempdirs \cup tmpfiles
         /\ \A f \in outputs : f.owner # i
         /\ \A d \in imgdirs : \A f \in d.files : f.owner # i
         /\ \A o \in cli_out : o.owner # i

\* Both gateways have turned down a PDF upload for its language.
C5_Witness ==
  \E i, j \in Req :
    /\ req[i].variant = "main" /\ resp[i].error.origin = "lang"
    /\ req[i].lang \notin MainLanguages
    /\ req[j].variant = "server" /\ resp[j].error.origin = "lang"
    /\ req[j].lang \notin ServerLanguages

\* The markdown artifact and the image directory request i has persisted.
Succeeded(i) == Done(i) /\ Parser(i) /\ resp[i].status = 200

\* C6, as stated: every successful call ends with a markdown file and an
\* image directory of its own, which no other request has overwritten or
\* added images to.
C6_ArtifactsNeverShared ==
  \A i \in Req :
    Succeeded(i)
      => /\ \E f \in outputs :
              f.name = resp[i].result.markdown_file /\ f.owner = i
         /\ \A j \in Req \ {i} :
              Succeeded(j)
                => resp[j].result.markdown_file # resp[i].result.markdown_file
         /\ \A d \in imgdirs :
              d.name = images_dirname(loc[i].base_name, loc[i].timestamp)
                => \A f \in d.files : f.owner = i

\* Position of a name in the listing, 0 when absent.
IndexOf(names, name) ==
  IF \E k \in 1..Len(names) : names[k] = name
    THEN CHOOSE k \in 1..Len(names) : names[k] = name
    ELSE 0

LatestFirst(names) ==
  /\ \A k \in 1..(Len(names) - 1) : StrLess(names[k + 1], names[k])
  /\ \A i, j \in Req :
       (/\ IndexOf(names, loc[i].md_filename) > 0
        /\ IndexOf(names, loc[j].md_filename) > 0
        /\ loc[i].base_name = loc[j].base_name
        /\ loc[i].created < loc[j].created)
         => IndexOf(names, loc[j].md_filename) < IndexOf(names, loc[i].md_filename)

\* C7: artifacts of one stem taken at different seconds have different
\* names, and GET /outputs lists every persisted markdown file, by name
\* descending, so that of two artifacts of one stem the later comes first.
C7_DistinctNamesLatestFirst ==
  /\ \A i, j \in Req :
       (/\ loc[i].md_filename # <<>> /\ loc[j].md_filename # <<>>
        /\ loc[i].base_name = loc[j].base_name
        /\ loc[i].created # loc[j].created)
         => loc[i].md_filename # loc[j].md_filename
  /\ {ListingOf(outputs)[k] : k \in 1..Len(ListingOf(outputs))}
       = {f.name : f \in outputs}
  /\ Len(ListingOf(outputs)) = Cardinality(outputs)
  /\ LatestFirst(ListingOf(outputs))
  /\ LatestFirst(listing)

\* GET /outputs has listed two artifacts of one stem taken at different
\* seconds.
C7_Witness ==
  \E i, j \in Req :
    /\ loc[i].base_name = loc[j].base_name
    /\ loc[i].created < loc[j].created
    /\ listing = <<loc[j].md_filename, loc[i].md_filename>>

\* C8, as stated: an upload whose extension does not match the endpoint's
\* document class is answered 400 with no byte read, no temporary resource
\* made and no extraction attempted, by every gateway.
C8_BadExtensionRejectedFirst ==
  \A i \in Req :
    (pc[i] # "idle"
       /\ ~\E e \in Extensions(req[i].endpoint) : EndsWith(Lower(req[i].filename), e))
      => /\ Done(i)
         /\ resp[i].status = 400
         /\ ~loc[i].read /\ ~loc[i].tmp /\ ~loc[i].strategy

\* ------------------------------------------------- the renderers on their own
\* The state of the service while a renderer is studied on its own: no
\* request ever arrives, and `call` holds the argument of the coming call.
QuietInit ==
  /\ ServiceInit
  /\ start = 0
  /\ now = 0
  /\ ret = <<>>

TableInit ==
  /\ QuietInit
  /\ \E data \in Tables : call = [fn |-> "none", arg |-> data]

\* _list_table_to_markdown(data)
CallListTable ==
  /\ call.fn = "none"
  /\ call' = [call EXCEPT !.fn = "_list_table_to_markdown"]
  /\ ret' = list_table_to_markdown(call.arg)
  /\ UNCHANGED service_vars

\* _table_to_markdown(table), table.extract() being call.arg
CallTable ==
  /\ call.fn = "none"
  /\ call' = [call EXCEPT !.fn = "_table_to_markdown"]
  /\ ret' = table_to_markdown(call.arg)
  /\ UNCHANGED service_vars

TableNext == CallListTable \/ CallTable

TableSpec == TableInit /\ [][TableNext]_vars

PageInit ==
  /\ QuietInit
  /\ \E page \in Pages, page_num \in {0, 1} :
       call = [fn |-> "none", arg |-> [page_num |-> page_num, page |-> page]]

\* One iteration of the fallback's loop over pdf.pages
CallFallbackPage ==
  /\ call.fn = "none"
  /\ call' = [call EXCEPT !.fn = "page"]
  /\ ret' = FallbackPage(call.arg.page_num, call.arg.page)
  /\ UNCHANGED service_vars

PageNext == CallFallbackPage

PageSpec == PageInit /\ [][PageNext]_vars


\* ==================================================== the claims, C9 and C10
\* Reading a rendering back: its lines, and the cells of a line, a cell
\* ending at each pipe that no backslash precedes.
RECURSIVE SplitLines(_)
SplitLines(s) ==
  IF \E k \in 1..Len(s) : s[k] = "\n"
    THEN LET k == CHOOSE n \in 1..Len(s) :
                    s[n] = "\n" /\ \A m \in 1..(n - 1) : s[m] # "\n"
         IN <<SubSeq(s, 1, k - 1)>> \o SplitLines(SubSeq(s, k + 1, Len(s)))
    ELSE <<s>>

IsDelimiter(s, k) == s[k] = "|" /\ (IF k = 1 THEN TRUE ELSE s[k - 1] # "\\")

RECURSIVE SplitCells(_)
SplitCells(s) ==
  IF \E k \in 1..Len(s) : IsDelimiter(s, k)
    THEN LET k == CHOOSE n \in 1..Len(s) :
                    IsDelimiter(s, n) /\ \A m \in 1..(n - 1) : ~IsDelimiter(s, m)
         IN <<SubSeq(s, 1, k - 1)>> \o SplitCells(SubSeq(s, k + 1, Len(s)))
    ELSE <<s>>

\* The cells between the outer pipes of a line.
CellsOf(line) == SubSeq(SplitCells(line), 2, Len(SplitCells(line)) - 1)

\* The rows a renderer renders: _list_table_to_markdown drops the rows
\* without content, _table_to_markdown renders every row.
RowsRendered(fn, data) ==
  IF fn = "_list_table_to_markdown" THEN FilterRows(data) ELSE data

\* The line of the rendering that holds row r: the header, then, after the
\* separator line, the data rows.
LineOfRow(lines, r) == IF r = 1 THEN lines[1] ELSE lines[r + 1]

PaddedAndEscaped(fn, data, md) ==
  LET rows == RowsRendered(fn, data)
      lines == SplitLines(md)
  IN /\ Len(lines) = Len(rows) + 1
     /\ \A k \in 1..Len(lines) : Len(CellsOf(lines[k])) = MaxLen(rows)
     /\ \A r \in 1..Len(rows) : \A c \in 1..Len(rows[r]) :
          Strip(CellsOf(LineOfRow(lines, r))[c])
            = Strip(Replace(Replace(CellText(rows[r][c]), "|", <<"\\","|">>),
                            "\n", <<" ">>))

\* C9, as stated: both renderers pad every rendered row, the header
\* included, to the width of the widest row, and render every pipe of a cell
\* as \| and every newline as a space, in header cells as in data cells.
C9_BothRenderersPadAndEscape ==
  (call.fn \in {"_list_table_to_markdown", "_table_to_markdown"} /\ ret # <<>>)
    => PaddedAndEscaped(call.fn, call.arg, ret)

\* s contains sub
Contains(s, sub) ==
  \E k \in 1..(Len(s) - Len(sub) + 1) : SubSeq(s, k, k + Len(sub) - 1) = sub

\* Table k of the page has no section in the page's markdown and no entry in
\* its structured record.
Skipped(k) ==
  /\ ~Contains(ret.content, TableHeading(k))
  /\ \A e \in 1..Len(ret.data.tables) : ret.data.tables[e].index # k

EmptyRow(row) == \A c \in 1..Len(row) : row[c] \in {None, <<>>}

\* C10, as stated: a table with no row, or whose first row has only empty
\* cells, whatever the later rows hold, renders as "" and is skipped.
C10_EmptyFirstRowSkipsTable ==
  call.fn = "page" =>
    LET tables == IF call.arg.page.lines # <<>>
                    THEN call.arg.page.lines ELSE call.arg.page.text
    IN \A k \in 1..Len(tables) :
         (tables[k] = <<>> \/ EmptyRow(tables[k][1]))
           => list_table_to_markdown(tables[k]) = <<>> /\ Skipped(k)

\* C10, amended: a table with no row, or whose first row has no cell at all,
\* whatever the later rows hold, or all of whose rows have only empty cells,
\* renders as "" and is skipped.
C10_NoRowNoCellOrAllEmptySkipsTable ==
  call.fn = "page" =>
    LET tables == IF call.arg.page.lines # <<>>
                    THEN call.arg.page.lines ELSE call.arg.page.text
    IN \A k \in 1..Len(tables) :
         (\/ tables[k] = <<>>
          \/ tables[k][1] = <<>>
          \/ \A r \in 1..Len(tables[k]) : EmptyRow(tables[k][r]))
           => list_table_to_markdown(tables[k]) = <<>> /\ Skipped(k)

\* A page whose first table has a first row without cells and a second row
\* with text, and whose second table is rendered as Table 2.
C10_Witness ==
  /\ call.fn = "page"
  /\ Len(call.arg.page.lines) = 2
  /\ call.arg.page.lines[1] = << <<>>, << <<"a">> >> >>
  /\ Skipped(1)
  /\ Contains(ret.content, TableHeading(2))

\* ------------------------------------------------------------------- C11
Containers == {"content_list", "images"}

\* C11, as stated: every successful result of any strategy (PDF primary, PDF
\* fallback, image, docx, pptx, xlsx) carries the markdown text, a
\* content_list and an images container.
C11_EveryResultHasContainers ==
  \A i \in Req :
    Succeeded(i) => ({"markdown"} \cup Containers) \subseteq resp[i].result.keys

\* C11: every successful result carries the markdown text; a PDF result
\* (primary or fallback) also carries content_list and images, while an
\* image or office result carries neither key.
C11_MarkdownAlwaysContainersForPdfOnly ==
  \A i \in Req :
    Succeeded(i) =>
      /\ "markdown" \in resp[i].result.keys
      /\ resp[i].result.via \in {"primary", "fallback", "ocr", "markitdown"}
      /\ resp[i].result.via \in {"primary", "fallback"}
           => Containers \subseteq resp[i].result.keys
      /\ resp[i].result.via \in {"ocr", "markitdown"}
           => Containers \cap resp[i].result.keys = {}

\* A fallback PDF result with both containers next to an office result
\* with neither.
C11_Witness ==
  \E i, j \in Req :
    /\ Succeeded(i) /\ resp[i].result.via = "fallback"
    /\ Containers \subseteq resp[i].result.keys
    /\ Succeeded(j) /\ resp[j].result.via = "markitdown"
    /\ Containers \cap resp[j].result.keys = {}

\* ------------------------------------------------------------------- C12
\* The glyphs of the page that lie in the region of its tables.
TableGlyphs(page) ==
  {k \in 1..Len(page.chars) : InBBox(page.chars[k], TableBBox)}

\* The prose of the page holds the character of glyph k.
InProse(page, k) ==
  \E n \in 1..Len(ret.data.text) : ret.data.text[n] = page.chars[k].ch

\* C12, as stated: when the page's markdown renders a table, found by the
\* line-based setting or by the text-alignment retry, the prose of the page
\* holds no glyph of the table region and is not the full text of the page.
C12_ProseHasNoTableGlyph ==
  (call.fn = "page" /\ ret.data.tables # <<>>) =>
    /\ \A k \in TableGlyphs(call.arg.page) : ~InProse(call.arg.page, k)
    /\ ret.data.text # Strip(extract_text(call.arg.page.chars))

\* ------------------------------------------------------------------- C13
\* Request i has left something in OUTPUT_DIR: a markdown file it wrote
\* last, or an image it copied.
LeftInOutputs(i) ==
  \/ \E f \in outputs : f.owner = i
  \/ \E d \in imgdirs : \E f \in d.files : f.owner = i

\* C13, as stated: a parse call (PDF, image or office) that ended in an
\* error has left no markdown file and no image in OUTPUT_DIR, whichever
\* step of it failed.
C13_FailedCallLeavesNothing ==
  \A i \in Req :
    (Done(i) /\ Parser(i) /\ resp[i].status # 200) => ~LeftInOutputs(i)

====
